---------------------------- MODULE Spec2Model ----------------------------
(***************************************************************************)
(* Edelbaum / Kechichian guidance law of poliastro.twobody.thrust.         *)
(*                                                                         *)
(* edelbaum_ai(k, a_0, a_f, inc_0, inc_f, f) derives V_0 and beta_0 once,  *)
(* builds the closure a_d and returns (a_d, delta_V, t_f).  a_d(t0, ss)    *)
(* is then evaluated on states (r, v).                                     *)
(*                                                                         *)
(* Numbers.  The code computes in IEEE doubles; the model computes in      *)
(* exact arithmetic on the extended rationals: a number is <<n, d>> in     *)
(* lowest terms with d > 0, and the three non-finite doubles are           *)
(* <<1, 0>> (+inf), <<-1, 0>> (-inf) and <<0, 0>> (nan), produced by a     *)
(* division by zero exactly where numpy produces them.  An angle is kept   *)
(* as the pair <<cos, sin>>; np.arctan2, np.cos, np.sin and np.tan are     *)
(* computed on it, and np.sqrt is the exact root.  Inputs are drawn from   *)
(* grids on which every root the code takes is rational: inclinations in   *)
(* whole radians (so that pi/2 * |inc_f - inc_0| is a whole number of      *)
(* quarter turns), semimajor axes 9 and 16 with k = 144 (circular          *)
(* velocities 4 and 3), whole times, thrusts -1, 0 and 5.                     *)
(*                                                                         *)
(* Where the exact sine of an angle is 0 (a whole multiple of pi) the      *)
(* quotient sin / tan of _delta_V is 0 / 0, which is nan here.  In doubles *)
(* this is nan at the angle 0 and, at the double nearest pi, a quotient of *)
(* two rounding errors.                                                    *)
(***************************************************************************)
EXTENDS Integers, Sequences, FiniteSets

VARIABLES laws, calls

vars == <<laws, calls>>

(***************************************************************************)
(* Bounds of the input grids.                                              *)
(***************************************************************************)
MaxInc == 1
MaxTick == 1
MaxCoord == 1

(***************************************************************************)
(* Extended rational arithmetic (the float operators +, -, *, /).          *)
(***************************************************************************)
Abs(n) == IF n < 0 THEN -n ELSE n

Sgn(n) == IF n > 0 THEN 1 ELSE IF n < 0 THEN -1 ELSE 0

RECURSIVE GCD(_, _)
GCD(a, b) == IF b = 0 THEN a ELSE GCD(b, a % b)

Norm(n, d) ==
    IF d = 0 THEN <<Sgn(n), 0>>
    ELSE LET g == GCD(Abs(n), Abs(d))
         IN  <<(Sgn(d) * n) \div g, Abs(d) \div g>>

R(n) == <<n, 1>>

NaN == <<0, 0>>

IsFinite(x) == x[2] # 0

RNeg(x) == <<-x[1], x[2]>>

RAdd(x, y) ==
    IF x[2] = 0 /\ y[2] = 0
    THEN (IF x = y THEN x ELSE NaN)
    ELSE Norm(x[1] * y[2] + y[1] * x[2], x[2] * y[2])

RSub(x, y) == RAdd(x, RNeg(y))

RMul(x, y) == Norm(x[1] * y[1], x[2] * y[2])

RDiv(x, y) == Norm(x[1] * y[2], x[2] * y[1])

RAbs(x) == <<Abs(x[1]), x[2]>>

RSign(x) == Sgn(x[1])

(***************************************************************************)
(* np.sqrt on the rationals whose root is rational.                        *)
(***************************************************************************)
RECURSIVE RootFrom(_, _)
RootFrom(n, s) == IF s * s >= n THEN s ELSE RootFrom(n, s + 1)

IsSquare(n) == n >= 0 /\ RootFrom(n, 0) * RootFrom(n, 0) = n

HasRoot(x) == IsFinite(x) /\ IsSquare(x[1]) /\ IsSquare(x[2])

sqrt(x) == CASE HasRoot(x) -> <<RootFrom(x[1], 0), RootFrom(x[2], 0)>>

(***************************************************************************)
(* Angles as <<cos, sin>>.                                                 *)
(***************************************************************************)
Zero == <<R(1), R(0)>>

\* np.pi / 2 * n for a whole number n
HalfPiTimes(n) ==
    CASE n % 4 = 0 -> <<R(1), R(0)>>
      [] n % 4 = 1 -> <<R(0), R(1)>>
      [] n % 4 = 2 -> <<R(-1), R(0)>>
      [] n % 4 = 3 -> <<R(0), R(-1)>>

cos(b) == b[1]

sin(b) == b[2]

tan(b) == RDiv(b[2], b[1])

Hypot2(y, x) == RAdd(RMul(x, x), RMul(y, y))

arctan2(y, x) ==
    IF x = R(0) /\ y = R(0) THEN Zero
    ELSE LET rho == sqrt(Hypot2(y, x))
         IN  <<RDiv(x, rho), RDiv(y, rho)>>

\* the sum of two angles
AngleAdd(a, b) ==
    <<RSub(RMul(a[1], b[1]), RMul(a[2], b[2])),
      RAdd(RMul(a[2], b[1]), RMul(a[1], b[2]))>>

\* an angle times the value of np.sign (-1, 0 or 1)
AngleTimesSign(b, s) ==
    CASE s = 1 -> b
      [] s = 0 -> Zero
      [] s = -1 -> <<b[1], RNeg(b[2])>>

(***************************************************************************)
(* 3-vectors of numbers.                                                   *)
(***************************************************************************)
Vec(u) == <<R(u[1]), R(u[2]), R(u[3])>>

dot(a, b) == RAdd(RAdd(RMul(a[1], b[1]), RMul(a[2], b[2])), RMul(a[3], b[3]))

cross(a, b) ==
    <<RSub(RMul(a[2], b[3]), RMul(a[3], b[2])),
      RSub(RMul(a[3], b[1]), RMul(a[1], b[3])),
      RSub(RMul(a[1], b[2]), RMul(a[2], b[1]))>>

VScale(c, a) == <<RMul(c, a[1]), RMul(c, a[2]), RMul(c, a[3])>>

VDiv(a, c) == <<RDiv(a[1], c), RDiv(a[2], c), RDiv(a[3], c)>>

VAdd(a, b) == <<RAdd(a[1], b[1]), RAdd(a[2], b[2]), RAdd(a[3], b[3])>>

norm(a) == sqrt(dot(a, a))

circular_velocity(k, a) == sqrt(RDiv(k, a))

(***************************************************************************)
(* The inner functions of edelbaum_ai.                                     *)
(***************************************************************************)
\* a variant without the abs
_beta_0_no_abs(V_0, V_f, inc_0, inc_f) ==
    LET delta_i_f == inc_f - inc_0
    IN  arctan2(sin(HalfPiTimes(delta_i_f)),
                RSub(RDiv(V_0, V_f), cos(HalfPiTimes(delta_i_f))))

_beta_0(V_0, V_f, inc_0, inc_f) ==
    LET delta_i_f == Abs(inc_f - inc_0)
    IN  arctan2(sin(HalfPiTimes(delta_i_f)),
                RSub(RDiv(V_0, V_f), cos(HalfPiTimes(delta_i_f))))

_compute_parameters(k, a_0, a_f, inc_0, inc_f) ==
    LET delta_inc == Abs(inc_f - inc_0)
        V_0 == circular_velocity(k, a_0)
        V_f == circular_velocity(k, a_f)
        beta_0_ == _beta_0(V_0, V_f, inc_0, inc_f)
    IN  <<V_0, beta_0_, delta_inc>>

\* a variant with the two arguments of arctan2 exchanged
_beta_swapped(t, V_0, f, beta_0) ==
    arctan2(RSub(RMul(V_0, cos(beta_0)), RMul(f, t)),
            RMul(V_0, sin(beta_0)))

_beta(t, V_0, f, beta_0) ==
    arctan2(RMul(V_0, sin(beta_0)),
            RSub(RMul(V_0, cos(beta_0)), RMul(f, t)))

_delta_V(V_0, beta_0, inc_0, inc_f) ==
    LET delta_i_f == Abs(inc_f - inc_0)
    IN  RSub(RMul(V_0, cos(beta_0)),
             RDiv(RMul(V_0, sin(beta_0)),
                  tan(AngleAdd(HalfPiTimes(delta_i_f), beta_0))))

\* a variant that multiplies by f
_t_f_product(delta_V_, f) == RMul(delta_V_, f)

_t_f(delta_V_, f) == RDiv(delta_V_, f)

_extra_quantities(k, a_0, a_f, inc_0, inc_f, f) ==
    LET p == _compute_parameters(k, a_0, a_f, inc_0, inc_f)
        delta_V_ == _delta_V(p[1], p[2], inc_0, inc_f)
        t_f_ == _t_f(delta_V_, f)
    IN  <<delta_V_, t_f_>>

(***************************************************************************)
(* edelbaum_ai: what one call computes and returns.  V_0 and beta_0 are    *)
(* the constants a_d closes over (with f, inc_0, inc_f); delta_V and t_f   *)
(* are the returned scalars.  The function has no raise statement and no   *)
(* input check: every call returns.                                        *)
(***************************************************************************)
Law(k, a_0, a_f, inc_0, inc_f, f) ==
    LET p == _compute_parameters(R(k), R(a_0), R(a_f), inc_0, inc_f)
        e == _extra_quantities(R(k), R(a_0), R(a_f), inc_0, inc_f, R(f))
    IN  [k |-> k, a_0 |-> a_0, a_f |-> a_f, inc_0 |-> inc_0, inc_f |-> inc_f,
         f |-> f, V_0 |-> p[1], beta_0 |-> p[2],
         delta_V |-> e[1], t_f |-> e[2], outcome |-> "returned"]

(***************************************************************************)
(* a_d: what one evaluation of the closure computes and returns.  There is *)
(* no raise statement: a zero norm divides, as numpy does, to nan.         *)
(***************************************************************************)
\* a variant of the sign correction that ignores the position
beta_sign_ignoring_r(r, inc_0, inc_f) == Sgn(inc_f - inc_0)

\* np.sign(r[0] * (inc_f - inc_0))
beta_sign(r, inc_0, inc_f) == Sgn(r[1] * (inc_f - inc_0))

\* a variant that does not normalise
t_hat_unnormalised(v) == Vec(v)

\* t_ = v / norm(v)
t_hat(v) == VDiv(Vec(v), norm(Vec(v)))

\* w_ = np.cross(r, v) / norm(np.cross(r, v))
w_hat(r, v) == VDiv(cross(Vec(r), Vec(v)), norm(cross(Vec(r), Vec(v))))

\* accel_v = f * (np.cos(beta_) * t_ + np.sin(beta_) * w_)
accel(f, beta_, t_, w_) ==
    VScale(f, VAdd(VScale(cos(beta_), t_), VScale(sin(beta_), w_)))

Evaluation(i, law, t0, r, v) ==
    LET beta == _beta(t0, law.V_0, R(law.f), law.beta_0)
        sign == beta_sign(r, law.inc_0, law.inc_f)
        beta_ == AngleTimesSign(beta, sign)
        t_ == t_hat(v)
        w_ == w_hat(r, v)
        accel_v == accel(R(law.f), beta_, t_, w_)
    IN  [law |-> i, t0 |-> t0, r |-> r, v |-> v, beta |-> beta,
         beta_ |-> beta_, t_ |-> t_, w_ |-> w_,
         accel_v |-> accel_v, outcome |-> "returned"]

(***************************************************************************)
(* The input grids: the inputs on which every root taken is rational.      *)
(***************************************************************************)
GravParams == {144}

SemiAxes == {9, 16}

Inclinations == 0 .. MaxInc

Thrusts == {-1, 0, 5}

Times == {R(j) : j \in 0 .. MaxTick}

Coords == -MaxCoord .. MaxCoord

Positions == {<<x, y, z>> : x \in Coords, y \in {0, 1}, z \in {0, 1}}

Axes == {<<1, 0, 0>>, <<0, 1, 0>>, <<0, 0, 1>>}

Speeds == {0, 2}

Velocities == {<<s * e[1], s * e[2], s * e[3]>> : e \in Axes, s \in Speeds}

ArgsOnGrid(k, a_0, a_f, inc_0, inc_f) ==
    /\ HasRoot(RDiv(R(k), R(a_0)))
    /\ HasRoot(RDiv(R(k), R(a_f)))
    /\ LET V_0 == circular_velocity(R(k), R(a_0))
           V_f == circular_velocity(R(k), R(a_f))
           th == HalfPiTimes(Abs(inc_f - inc_0))
       IN  HasRoot(Hypot2(sin(th), RSub(RDiv(V_0, V_f), cos(th))))

StateOnGrid(law, t0, r, v) ==
    /\ HasRoot(Hypot2(RMul(law.V_0, sin(law.beta_0)),
                      RSub(RMul(law.V_0, cos(law.beta_0)), RMul(R(law.f), t0))))
    /\ HasRoot(dot(Vec(v), Vec(v)))
    /\ HasRoot(dot(cross(Vec(r), Vec(v)), cross(Vec(r), Vec(v))))

(***************************************************************************)
(* Actions.                                                                *)
(***************************************************************************)
Init == laws = <<>> /\ calls = <<>>

edelbaum_ai(k, a_0, a_f, inc_0, inc_f, f) ==
    /\ laws' = Append(laws, Law(k, a_0, a_f, inc_0, inc_f, f))
    /\ UNCHANGED calls

\* a variant that writes the current yaw angle back into the captured beta_0
a_d_caching(i, t0, r, v) ==
    /\ i \in 1 .. Len(laws)
    /\ calls' = Append(calls, Evaluation(i, laws[i], t0, r, v))
    /\ laws' = [laws EXCEPT ![i].beta_0 = Evaluation(i, laws[i], t0, r, v).beta]

a_d(i, t0, r, v) ==
    /\ i \in 1 .. Len(laws)
    /\ calls' = Append(calls, Evaluation(i, laws[i], t0, r, v))
    /\ UNCHANGED laws

\* the caller builds a guidance law
Construct ==
    /\ Len(laws) = 0
    /\ \E k \in GravParams, a_0 \in SemiAxes, a_f \in SemiAxes,
          inc_0 \in Inclinations, inc_f \in Inclinations, f \in Thrusts :
          /\ ArgsOnGrid(k, a_0, a_f, inc_0, inc_f)
          /\ edelbaum_ai(k, a_0, a_f, inc_0, inc_f, f)

\* the propagator evaluates the law on a state
Evaluate ==
    /\ Len(calls) = 0
    /\ \E i \in 1 .. Len(laws), t0 \in Times, r \in Positions, v \in Velocities :
          /\ StateOnGrid(laws[i], t0, r, v)
          /\ a_d(i, t0, r, v)

Next == Construct \/ Evaluate

Spec == Init /\ [][Next]_vars

(***************************************************************************)
(* A propagator that evaluates the same law twice: the second evaluation   *)
(* is at the same elapsed time and velocity, at a position with any x.     *)
(***************************************************************************)
EvaluateAcross ==
    /\ Len(calls) = 1
    /\ \E x \in Coords :
          LET c == calls[1]
              r == <<x, c.r[2], c.r[3]>>
          IN  /\ StateOnGrid(laws[c.law], c.t0, r, c.v)
              /\ a_d(c.law, c.t0, r, c.v)

NextRepeat == Construct \/ Evaluate \/ EvaluateAcross

SpecRepeat == Init /\ [][NextRepeat]_vars

(***************************************************************************)
(* Two laws side by side: a second call of edelbaum_ai, with the same      *)
(* inputs or with the two endpoints exchanged, at any moment after the     *)
(* first; then the state one law was evaluated on is given to the other.   *)
(***************************************************************************)
ConstructAgain ==
    /\ Len(laws) = 1
    /\ \E swapped \in BOOLEAN :
          LET l == laws[1]
          IN  IF swapped
              THEN edelbaum_ai(l.k, l.a_f, l.a_0, l.inc_f, l.inc_0, l.f)
              ELSE edelbaum_ai(l.k, l.a_0, l.a_f, l.inc_0, l.inc_f, l.f)

EvaluateOther ==
    /\ Len(calls) = 1
    /\ \E i \in 1 .. Len(laws) :
          LET c == calls[1]
          IN  /\ i # c.law
              /\ StateOnGrid(laws[i], c.t0, c.r, c.v)
              /\ a_d(i, c.t0, c.r, c.v)

NextPair == Construct \/ ConstructAgain \/ Evaluate \/ EvaluateOther

SpecPair == Init /\ [][NextPair]_vars

(***************************************************************************)
(* Vocabulary of the properties.                                           *)
(***************************************************************************)
Origin == <<R(0), R(0), R(0)>>

NonDegenerate(r, v) == Vec(v) # Origin /\ cross(Vec(r), Vec(v)) # Origin

ValidInputs(law) == law.k > 0 /\ law.a_0 > 0 /\ law.a_f > 0 /\ law.f > 0

\* the coefficient of a vector along a unit vector
Component(a, u) == dot(a, u)

(***************************************************************************)
(* C1.  For every elapsed time and every non-degenerate state (v # 0 and   *)
(* r x v # 0), the vector returned by a_d of a law built with f > 0 has    *)
(* magnitude f (its squared magnitude is f * f and f is positive),         *)
(* whatever the sign correction.                                           *)
(***************************************************************************)
C1_MagnitudeIsF ==
    \A n \in 1 .. Len(calls) :
        LET c == calls[n]
            law == laws[c.law]
        IN  (law.f > 0 /\ NonDegenerate(c.r, c.v))
                => /\ c.outcome = "returned"
                   /\ dot(c.accel_v, c.accel_v) = R(law.f * law.f)

C1_Witness ==
    \E n \in 1 .. Len(calls) :
        LET c == calls[n]
            law == laws[c.law]
        IN  /\ law.f = 5
            /\ NonDegenerate(c.r, c.v)
            /\ dot(Vec(c.v), Vec(c.v)) = R(4)
            /\ beta_sign(c.r, law.inc_0, law.inc_f) = -1
            /\ sin(c.beta_) # R(0)
            /\ cos(c.beta_) # R(0)
            /\ c.t0 # R(0)

(***************************************************************************)
(* C2.  Calling a_d with a degenerate state (v = 0, or r x v = 0) ends in  *)
(* a NumericSingularity failure and never returns a vector.                *)
(***************************************************************************)
C2_DegenerateStateFails ==
    \A n \in 1 .. Len(calls) :
        (ValidInputs(laws[calls[n].law]) /\ ~NonDegenerate(calls[n].r, calls[n].v))
            => calls[n].outcome = "NumericSingularity"

(***************************************************************************)
(* C3.  For every valid input with inc_f = inc_0, beta_0 is 0 and delta_V  *)
(* is |V_0 - V_f| with V = sqrt(k / a); with a_0 = a_f, delta_V = 0 and    *)
(* t_f = 0.                                                                *)
(***************************************************************************)
C3_NoInclinationChange ==
    \A n \in 1 .. Len(laws) :
        LET law == laws[n]
            V_0 == circular_velocity(R(law.k), R(law.a_0))
            V_f == circular_velocity(R(law.k), R(law.a_f))
        IN  (ValidInputs(law) /\ law.inc_f = law.inc_0)
                => /\ law.beta_0 = Zero
                   /\ law.delta_V = RAbs(RSub(V_0, V_f))
                   /\ (law.a_0 = law.a_f => law.delta_V = R(0) /\ law.t_f = R(0))

(***************************************************************************)
(* C5.  For every valid input, the returned t_f is the returned delta_V    *)
(* divided by f, and delta_V is                                            *)
(* V_0 cos(beta_0) - V_0 sin(beta_0) / tan(pi/2 |inc_f - inc_0| + beta_0)  *)
(* of the V_0 and beta_0 that a_d captured.                                *)
(***************************************************************************)
C5_TransferTime ==
    \A n \in 1 .. Len(laws) :
        LET law == laws[n]
            th == HalfPiTimes(Abs(law.inc_f - law.inc_0))
        IN  ValidInputs(law)
                => /\ law.t_f = RDiv(law.delta_V, R(law.f))
                   /\ law.delta_V =
                          RSub(RMul(law.V_0, cos(law.beta_0)),
                               RDiv(RMul(law.V_0, sin(law.beta_0)),
                                    tan(AngleAdd(th, law.beta_0))))

C5_Witness ==
    \E n \in 1 .. Len(laws) :
        /\ ValidInputs(laws[n])
        /\ laws[n].f = 5
        /\ laws[n].delta_V = R(5)
        /\ laws[n].t_f = R(1)

(***************************************************************************)
(* C6.  edelbaum_ai called with a_0 <= 0, a_f <= 0 or f <= 0 ends in an    *)
(* InvalidInput failure: no triple is returned for such an input.          *)
(***************************************************************************)
C6_InvalidInputRejected ==
    \A n \in 1 .. Len(laws) :
        laws[n].outcome = "returned" => ValidInputs(laws[n])

(***************************************************************************)
(* C9.  The yaw angle at elapsed time 0 is the initial yaw angle:          *)
(* beta(0) = beta_0 before the sign correction, for every V_0 > 0, every   *)
(* f and every beta_0 the parameter derivation produces.                   *)
(***************************************************************************)
C9_BetaAtZero ==
    \A n \in 1 .. Len(calls) :
        LET c == calls[n]
            law == laws[c.law]
        IN  c.t0 = R(0) => c.beta = law.beta_0

C9_Witness ==
    \E n \in 1 .. Len(calls) :
        LET c == calls[n]
            law == laws[c.law]
        IN  /\ c.t0 = R(0)
            /\ sin(law.beta_0) # R(0)
            /\ cos(law.beta_0) # sin(law.beta_0)
            /\ c.beta = law.beta_0

(***************************************************************************)
(* C10.  Whenever the sign correction is 0 (inc_f = inc_0 or r_x = 0) the  *)
(* yaw angle used is 0 and a_d returns exactly f * v / |v|, whatever       *)
(* beta(t) is and whichever of a_0, a_f is larger.                         *)
(***************************************************************************)
C10_ZeroSignAnyState ==
    \A n \in 1 .. Len(calls) :
        LET c == calls[n]
            law == laws[c.law]
        IN  (ValidInputs(law) /\ (law.inc_f = law.inc_0 \/ c.r[1] = 0))
                => /\ c.beta_ = Zero
                   /\ c.accel_v = VDiv(VScale(R(law.f), Vec(c.v)), norm(Vec(c.v)))

(***************************************************************************)
(* C10 on the non-degenerate states, where a_d divides by no zero norm:    *)
(* with a zero sign correction the yaw angle used is 0 and a_d returns     *)
(* exactly f * v / |v|, with a zero out-of-plane component; otherwise the  *)
(* tangential component is f * cos(beta(t)).                               *)
(***************************************************************************)
C10_ZeroSign ==
    \A n \in 1 .. Len(calls) :
        LET c == calls[n]
            law == laws[c.law]
            tangent == VDiv(Vec(c.v), norm(Vec(c.v)))
        IN  NonDegenerate(c.r, c.v)
                => IF law.inc_f = law.inc_0 \/ c.r[1] = 0
                   THEN /\ c.beta_ = Zero
                        /\ c.accel_v = VScale(R(law.f), tangent)
                        /\ Component(c.accel_v, c.w_) = R(0)
                   ELSE Component(c.accel_v, tangent)
                            = RMul(R(law.f), cos(c.beta))

C10_Witness ==
    \E n \in 1 .. Len(calls) :
        LET c == calls[n]
            law == laws[c.law]
        IN  /\ NonDegenerate(c.r, c.v)
            /\ law.inc_f = law.inc_0
            /\ law.a_f < law.a_0
            /\ c.r[1] # 0
            /\ c.beta # Zero
            /\ law.f = 5
            /\ c.accel_v = VDiv(VScale(R(5), Vec(c.v)), norm(Vec(c.v)))

(***************************************************************************)
(* Two evaluations of one law at the same elapsed time, on non-degenerate  *)
(* states whose r_x have opposite signs and whose local frames agree.      *)
(***************************************************************************)
MirroredPair(m, n) ==
    /\ calls[m].law = calls[n].law
    /\ ValidInputs(laws[calls[m].law])
    /\ calls[m].t0 = calls[n].t0
    /\ calls[m].r[1] * calls[n].r[1] < 0
    /\ NonDegenerate(calls[m].r, calls[m].v)
    /\ NonDegenerate(calls[n].r, calls[n].v)
    /\ calls[m].t_ = calls[n].t_
    /\ calls[m].w_ = calls[n].w_

OutOfPlane(c) == Component(c.accel_v, c.w_)

(***************************************************************************)
(* C4.  As claimed: for two evaluations of one law at the same elapsed     *)
(* time, on states that differ in the sign of r_x and have the same local  *)
(* frame, the out-of-plane components have opposite signs.                 *)
(***************************************************************************)
C4_SignFlipAnyLaw ==
    \A m, n \in 1 .. Len(calls) :
        MirroredPair(m, n)
            => RSign(OutOfPlane(calls[m])) * RSign(OutOfPlane(calls[n])) = -1

(***************************************************************************)
(* C4, amended.  For such a pair of evaluations the out-of-plane           *)
(* components have opposite signs when inc_f # inc_0 and sin(beta(t)) # 0; *)
(* when inc_f = inc_0, or sin(beta(t)) = 0, both are zero.                 *)
(***************************************************************************)
C4_SignFlip ==
    \A m, n \in 1 .. Len(calls) :
        LET law == laws[calls[m].law]
        IN  MirroredPair(m, n)
                => IF law.inc_f # law.inc_0 /\ sin(calls[m].beta) # R(0)
                   THEN RSign(OutOfPlane(calls[m])) * RSign(OutOfPlane(calls[n])) = -1
                   ELSE OutOfPlane(calls[m]) = R(0) /\ OutOfPlane(calls[n]) = R(0)

C4_Witness ==
    \E m, n \in 1 .. Len(calls) :
        /\ MirroredPair(m, n)
        /\ laws[calls[m].law].inc_f # laws[calls[m].law].inc_0
        /\ calls[m].t0 # R(0)
        /\ RSign(OutOfPlane(calls[m])) = 1
        /\ RSign(OutOfPlane(calls[n])) = -1

(***************************************************************************)
(* C7.  No hidden state.  Whatever constructions and evaluations are       *)
(* interleaved: a step changes no existing law's captured constants or     *)
(* returned scalars and no earlier result; two calls of edelbaum_ai with   *)
(* the same inputs return identical delta_V and t_f; and two evaluations   *)
(* with equal captured constants and equal (t, r, v) return equal vectors. *)
(***************************************************************************)
SameInputs(a, b) ==
    /\ a.k = b.k /\ a.a_0 = b.a_0 /\ a.a_f = b.a_f
    /\ a.inc_0 = b.inc_0 /\ a.inc_f = b.inc_f /\ a.f = b.f

SameCaptured(a, b) ==
    /\ a.V_0 = b.V_0 /\ a.beta_0 = b.beta_0 /\ a.f = b.f
    /\ a.inc_0 = b.inc_0 /\ a.inc_f = b.inc_f

C7_Pure ==
    /\ \A i, j \in 1 .. Len(laws) :
          SameInputs(laws[i], laws[j])
              => /\ laws[i].delta_V = laws[j].delta_V
                 /\ laws[i].t_f = laws[j].t_f
                 /\ SameCaptured(laws[i], laws[j])
    /\ \A m, n \in 1 .. Len(calls) :
          (/\ SameCaptured(laws[calls[m].law], laws[calls[n].law])
           /\ calls[m].t0 = calls[n].t0
           /\ calls[m].r = calls[n].r
           /\ calls[m].v = calls[n].v)
              => calls[m].accel_v = calls[n].accel_v

C7_Frame ==
    /\ Len(laws') >= Len(laws)
    /\ Len(calls') >= Len(calls)
    /\ \A i \in 1 .. Len(laws) : laws'[i] = laws[i]
    /\ \A n \in 1 .. Len(calls) : calls'[n] = calls[n]

C7_NoHiddenState == [](C7_Pure) /\ [][C7_Frame]_vars

C7_Witness ==
    /\ Len(laws) = 2
    /\ ~SameInputs(laws[1], laws[2])
    /\ Len(calls) = 2
    /\ calls[1].law = 2
    /\ calls[2].law = 1
    /\ calls[1].t0 # R(0)
    /\ calls[1].beta # laws[2].beta_0

(***************************************************************************)
(* A law and the law of the exchanged endpoints, evaluated on one          *)
(* non-degenerate state with r_x # 0.                                      *)
(***************************************************************************)
Exchanged(a, b) ==
    /\ ValidInputs(a) /\ ValidInputs(b)
    /\ a.k = b.k /\ a.f = b.f
    /\ a.a_0 = b.a_f /\ a.a_f = b.a_0
    /\ a.inc_0 = b.inc_f /\ a.inc_f = b.inc_0

SameState(m, n) ==
    /\ calls[m].t0 = calls[n].t0
    /\ calls[m].r = calls[n].r
    /\ calls[m].v = calls[n].v
    /\ NonDegenerate(calls[m].r, calls[m].v)
    /\ calls[m].r[1] # 0

=============================================================================
